---- MODULE Spec2Model ----
(***************************************************************************)
(* Ad Asset Optimizer (scripts/optimize.py): usage classification, the    *)
(* compression loop and the propose / confirm deletion workflow, over a   *)
(* small project directory.                                               *)
(*                                                                         *)
(* Paths are sequences of path components relative to the project         *)
(* directory; a file's bytes are a sequence of byte values; the file      *)
(* system is the function disk (existing files -> bytes) plus the set     *)
(* dirs of existing directories.                                          *)
(***************************************************************************)
EXTENDS Integers, Sequences, FiniteSets, TLC

\* ------------------------------------------------------------------------
\* Bounds of the model
\* ------------------------------------------------------------------------
\* invocations of the script in one behaviour of the deletion workflow
MaxRuns == 3
\* invocations of the script in one behaviour of the run_optimize runs
MaxOptimizeRuns == 1
\* files removed by somebody else between two invocations
MaxExternal == 2
\* invocations of the script in one behaviour without the credential
MaxNoKeyRuns == 2
\* invocations of the script in one behaviour of the runs with --backup
MaxBackupRuns == 2

\* ------------------------------------------------------------------------
\* Program constants
\* ------------------------------------------------------------------------
IMAGE_EXTENSIONS == {".png", ".jpg", ".jpeg", ".webp"}
SOURCE_EXTENSIONS == {".ts", ".tsx", ".js", ".jsx", ".css", ".html"}
SKIP_DIRS == {"node_modules", ".git", "dist", "build", "output", "__pycache__"}
MANIFEST_NAME == ".deletion_manifest.json"
REVIEW_NAME == ".deletion_review.html"
BACKUP_DIR == <<".deleted_assets_backup">>
BAK_SUFFIX == ".bak"
UNKNOWN_COUNT == "?"

\* ------------------------------------------------------------------------
\* The project of the model
\* ------------------------------------------------------------------------
ASSETS_DIR == <<"assets">>
SRC_DIR == <<"src">>
ImgA == <<"assets", "a.png">>
ImgB == <<"assets", "ui", "b.png">>
ImgC == <<"assets", "ui", "c.png">>
Images == {ImgA, ImgB, ImgC}
SrcMain == <<"src", "main.ts">>
SrcMenu == <<"src", "ui", "menu.ts">>

\* os.path.splitext(f)[1].lower() of the file names of the model
splitext(name) ==
    CASE name \in {"a.png", "b.png", "c.png"} -> ".png"
      [] name \in {"main.ts", "menu.ts"} -> ".ts"
      [] name \in {"a.png.bak", "b.png.bak", "c.png.bak"} -> ".bak"
      [] name = MANIFEST_NAME -> ".json"
      [] name = REVIEW_NAME -> ".html"
      [] OTHER -> ""

\* d.startswith(".") of the directory names of the model
startswith_dot(name) == name \in {".deleted_assets_backup", ".git", "."}

dirname(p) == SubSeq(p, 1, Len(p) - 1)
basename(p) == p[Len(p)]

IsPrefix(d, p) == Len(d) <= Len(p) /\ SubSeq(p, 1, Len(d)) = d

\* os.path.relpath(p, base) for p below base
relpath(p, base) == IF IsPrefix(base, p) THEN SubSeq(p, Len(base) + 1, Len(p)) ELSE p

\* the bytes the project's images start with (sizes 2, 1, 3)
InitialBytes(p) ==
    CASE p = ImgA -> <<"a", "a">>
      [] p = ImgB -> <<"b">>
      [] p = ImgC -> <<"c", "c", "c">>

\* os.walk order of the files the model can hold: a directory's files
\* (sorted) before its subdirectories
WalkOrder ==
    << <<MANIFEST_NAME>>, <<REVIEW_NAME>>,
       ImgA, <<"assets", "a.png.bak">>,
       ImgB, <<"assets", "ui", "b.png.bak">>,
       ImgC, <<"assets", "ui", "c.png.bak">>,
       BACKUP_DIR \o <<"a.png">>,
       BACKUP_DIR \o <<"ui", "b.png">>,
       BACKUP_DIR \o <<"ui", "c.png">> >>

\* ------------------------------------------------------------------------
\* Pure helpers
\* ------------------------------------------------------------------------
RECURSIVE SumSize(_)
SumSize(entries) ==
    IF entries = <<>> THEN 0 ELSE entries[1].size + SumSize(Tail(entries))

Range(s) == {s[i] : i \in 1..Len(s)}

\* os.path.normpath on a component sequence: "." is dropped, ".." removes
\* the component before it (and stays when there is none)
RECURSIVE normpath_from(_, _)
normpath_from(done, rest) ==
    IF rest = <<>> THEN done
    ELSE IF rest[1] = "." THEN normpath_from(done, Tail(rest))
    ELSE IF rest[1] = ".." /\ done # <<>> /\ done[Len(done)] # ".."
         THEN normpath_from(SubSeq(done, 1, Len(done) - 1), Tail(rest))
    ELSE normpath_from(Append(done, rest[1]), Tail(rest))

normpath(p) == normpath_from(<<>>, p)

\* ------------------------------------------------------------------------
\* State
\* ------------------------------------------------------------------------
VARIABLES
    disk,       \* existing byte files: path -> bytes
    dirs,       \* existing directories below the project directory
    manifest,   \* .deletion_manifest.json: <<>> (no file) or <<document>>
    review,     \* .deletion_review.html: <<>> or <<embedded manifest>>
    sources,    \* source file -> its lines that hold an import of an image
    pc,         \* position of the running invocation
    argv,       \* its command line, and whether TINYPNG_API_KEY is set
    run,        \* the invocation: mode and the flags the entry point got
    opt,        \* locals of run_optimize
    del,        \* locals of run_confirm_delete
    out,        \* what the invocation returned: exit code and report
    hist        \* the file system when the invocation started, and counters

vars == <<disk, dirs, manifest, review, sources, pc, argv, run, opt, del, out, hist>>

exists(p) == p \in DOMAIN disk

\* the file system after writing bytes b to path p / after removing p
WriteFile(d, p, b) == [q \in (DOMAIN d) \cup {p} |-> IF q = p THEN b ELSE d[q]]
RemoveFile(d, p) == [q \in (DOMAIN d) \ {p} |-> d[q]]

\* os.makedirs(d, exist_ok=True)
makedirs(ds, d) == ds \cup {SubSeq(d, 1, k) : k \in 1..Len(d)}

\* os.listdir(d) is empty
IsEmptyDir(d, fs, ds, man, rev) ==
    /\ \A p \in DOMAIN fs : dirname(p) # d
    /\ \A e \in ds : dirname(e) # d
    /\ d = <<>> => (man = <<>> /\ rev = <<>>)

\* ------------------------------------------------------------------------
\* Asset Inventory Builder
\* ------------------------------------------------------------------------
\* os.walk without the filter of dirs[:]
Walked_unfiltered(p, root) == IsPrefix(root, p)

\* os.walk below root with dirs[:] filtered: no directory on the way from
\* root to the file is in SKIP_DIRS or starts with a dot
Walked(p, root) ==
    /\ IsPrefix(root, p)
    /\ \A k \in (Len(root) + 1)..(Len(p) - 1) :
          p[k] \notin SKIP_DIRS /\ ~startswith_dot(p[k])

find_images(fs, ds) ==
    LET root == IF ASSETS_DIR \in ds THEN ASSETS_DIR ELSE <<>>
    IN  SelectSeq(WalkOrder,
                  LAMBDA p : /\ p \in DOMAIN fs
                             /\ Walked(p, root)
                             /\ splitext(basename(p)) \in IMAGE_EXTENSIONS)

\* ------------------------------------------------------------------------
\* Reference Resolver
\* ------------------------------------------------------------------------
\* the source files scanned: src/ first, then the project directory; the
\* generated review page is an .html file of the project directory too but
\* holds no import statement
find_source_files(src) ==
    SelectSeq(<<SrcMain, SrcMenu>>,
              LAMBDA f : f \in DOMAIN src
                         /\ splitext(basename(f)) \in SOURCE_EXTENSIONS)

\* every import taken relative to the project directory
resolve_import_from_root(sf, raw) == normpath(raw)

\* one matched import of source file sf, resolved by the prefix of its path
resolve_import(sf, raw) ==
    IF Len(raw) > 1 /\ raw[1] = "assets" THEN raw
    ELSE IF Len(raw) > 1 /\ raw[1] \in {".", ".."}
         THEN normpath(dirname(sf) \o raw)
    ELSE raw

\* parse_import_paths with the test of strict inverted: the commented-out
\* lines are skipped unless strict
parse_import_paths_strict_inverted(src, strict) ==
    LET sfs == find_source_files(src)
        kept(sf) == {k \in DOMAIN src[sf] : ~(~strict /\ src[sf][k].comment)}
        of_file(sf) == {resolve_import(sf, src[sf][k].raw) : k \in kept(sf)}
    IN  UNION {of_file(sfs[n]) : n \in DOMAIN sfs}

parse_import_paths(src, strict) ==
    LET sfs == find_source_files(src)
        kept(sf) == {k \in DOMAIN src[sf] : ~(strict /\ src[sf][k].comment)}
        of_file(sf) == {resolve_import(sf, src[sf][k].raw) : k \in kept(sf)}
    IN  UNION {of_file(sfs[n]) : n \in DOMAIN sfs}

\* ------------------------------------------------------------------------
\* Usage Classifier
\* ------------------------------------------------------------------------
asset_entry(p, fs, ds) ==
    [path |-> p,
     rel_path |-> relpath(p, IF ASSETS_DIR \in ds THEN ASSETS_DIR ELSE <<>>),
     filename |-> basename(p),
     size |-> Len(fs[p])]

\* detect_unused with the else of the classification lost: every image is
\* appended to unused
detect_unused_without_else(images, fs, ds, src, strict) ==
    LET imported_abs == {normpath(p) : p \in parse_import_paths(src, strict)}
        is_used(p) == normpath(p) \in imported_abs
    IN  [used |-> SelectSeq([n \in 1..Len(images) |-> asset_entry(images[n], fs, ds)],
                            LAMBDA e : is_used(e.path)),
         unused |-> [n \in 1..Len(images) |-> asset_entry(images[n], fs, ds)]]

detect_unused(images, fs, ds, src, strict) ==
    LET imported_abs == {normpath(p) : p \in parse_import_paths(src, strict)}
        is_used(p) == normpath(p) \in imported_abs
    IN  [used |-> SelectSeq([n \in 1..Len(images) |-> asset_entry(images[n], fs, ds)],
                            LAMBDA e : is_used(e.path)),
         unused |-> SelectSeq([n \in 1..Len(images) |-> asset_entry(images[n], fs, ds)],
                              LAMBDA e : ~is_used(e.path))]

\* ------------------------------------------------------------------------
\* Compression Orchestrator: pure parts
\* ------------------------------------------------------------------------
\* savings_pct < 1, with savings_pct = (input_size - output_size) /
\* input_size * 100 if input_size > 0 else 0 (sizes are integers far below
\* 2^53, so the float comparison is the integer one)
\* the threshold test with <= for <
is_skip_at_one_percent(input_size, output_size) ==
    IF input_size > 0 THEN (input_size - output_size) * 100 <= input_size ELSE TRUE

is_skip(input_size, output_size) ==
    IF input_size > 0 THEN (input_size - output_size) * 100 < input_size ELSE TRUE

\* fpath + ".bak"
bak_path(p) == dirname(p) \o <<basename(p) \o BAK_SUFFIX>>

\* what the shrink service may answer: <<input.size, output.size>>
ShrinkSizes == {<<1000, 995>>, <<1000, 600>>, <<0, 0>>, <<100, 99>>}
\* the bytes served at output.url
NewData == {<<"z", "z">>}

\* ------------------------------------------------------------------------
\* Deletion Manifest Workflow: pure parts
\* ------------------------------------------------------------------------
\* sorted(unused, key=lambda x: -x["size"]): stable, larger first
RECURSIVE sort_by_size_desc(_)
sort_by_size_desc(entries) ==
    IF entries = <<>> THEN <<>>
    ELSE LET first == CHOOSE n \in DOMAIN entries :
                        /\ \A m \in DOMAIN entries : entries[m].size <= entries[n].size
                        /\ \A m \in 1..(n - 1) : entries[m].size < entries[n].size
             rest == [m \in 1..(Len(entries) - 1) |->
                        IF m < first THEN entries[m] ELSE entries[m + 1]]
         IN  <<entries[first]>> \o sort_by_size_desc(rest)

\* the manifest with its files in inventory order
make_manifest_unsorted(unused) ==
    [total_unused_files |-> Len(unused),
     total_unused_size |-> SumSize(unused),
     files |-> unused]

make_manifest(unused) ==
    [total_unused_files |-> Len(unused),
     total_unused_size |-> SumSize(unused),
     files |-> sort_by_size_desc(unused)]

\* saveManifest() of the review page with entry n unchecked
review_without(doc, n) ==
    LET selected == [m \in 1..(Len(doc.files) - 1) |->
                       IF m < n THEN doc.files[m] ELSE doc.files[m + 1]]
    IN  [total_unused_files |-> Len(selected),
         total_unused_size |-> SumSize(selected),
         files |-> selected]

\* len(d) of the path string of directory d (below the project directory)
RECURSIVE path_len(_)
path_len(d) ==
    IF d = <<>> THEN 0 ELSE Len(d[1]) + 1 + path_len(Tail(d))

\* sorted(parent_dirs, key=len, reverse=True)
RECURSIVE sort_by_len_desc(_)
sort_by_len_desc(ds) ==
    IF ds = {} THEN <<>>
    ELSE LET d == CHOOSE x \in ds : \A y \in ds : path_len(y) <= path_len(x)
         IN  <<d>> \o sort_by_len_desc(ds \ {d})

parent_dirs(files) == {dirname(files[n].path) : n \in DOMAIN files}

backup_path(entry) == BACKUP_DIR \o entry.rel_path

\* ------------------------------------------------------------------------
\* Initial state
\* ------------------------------------------------------------------------
Import(c, raw) == [comment |-> c, raw |-> raw]

\* the source texts the project may hold
SourceConfigs ==
    { \* a.png imported; b.png and c.png unreferenced
      [f \in {SrcMain, SrcMenu} |->
         IF f = SrcMain THEN <<Import(FALSE, <<"assets", "a.png">>)>> ELSE <<>>],
      \* c.png imported relative to menu.ts, b.png only in a commented-out line
      [f \in {SrcMain, SrcMenu} |->
         IF f = SrcMain
         THEN <<Import(TRUE, <<"assets", "ui", "b.png">>)>>
         ELSE <<Import(FALSE, <<"..", "..", "assets", "ui", "c.png">>)>>],
      \* imports that resolve to no image: ./a.png of src/, bare c.png
      [f \in {SrcMain, SrcMenu} |->
         IF f = SrcMain THEN <<Import(FALSE, <<".", "a.png">>)>>
         ELSE <<Import(FALSE, <<"c.png">>)>>],
      \* a.png and b.png imported; c.png only by its bare name, in another
      \* letter case and below another directory
      [f \in {SrcMain, SrcMenu} |->
         IF f = SrcMain
         THEN <<Import(FALSE, <<"..", "assets", "a.png">>),
                Import(FALSE, <<"assets", ".", "ui", "b.png">>)>>
         ELSE <<Import(FALSE, <<"c.png">>),
                Import(FALSE, <<"assets", "ui", "C.PNG">>),
                Import(FALSE, <<".", "assets", "ui", "c.png">>)>>] }

NoArgs == [analyze |-> FALSE, compress |-> FALSE, delete_unused |-> FALSE,
           confirm_delete |-> FALSE, backup |-> FALSE, strict |-> FALSE,
           has_key |-> FALSE]

NoRun == [mode |-> "none", do_compress |-> FALSE, do_delete |-> FALSE,
          backup |-> FALSE, strict |-> FALSE]

NoOpt == [images |-> <<>>, used |-> <<>>, unused |-> <<>>, i |-> 0,
          compressed_results |-> <<>>, compress_errors |-> <<>>,
          total_compressed_saved |-> 0, total_compressed_original |-> 0,
          compression_count |-> UNKNOWN_COUNT,
          resp |-> <<>>, data |-> <<>>]

NoDel == [files |-> <<>>, j |-> 0, deleted_results |-> <<>>,
          deleted_total_size |-> 0, error_lines |-> <<>>, skip_lines |-> <<>>,
          queue |-> <<>>, removed_dirs |-> {}]

NoOut == [code |-> -1]

\* the image files the project may hold at first: all three, or none
Projects == {[p \in Images |-> InitialBytes(p)], [p \in {} |-> <<>>]}

Init ==
    /\ disk \in Projects
    /\ dirs = {ASSETS_DIR, <<"assets", "ui">>, SRC_DIR, <<"src", "ui">>}
    /\ manifest = <<>>
    /\ review = <<>>
    /\ sources \in SourceConfigs
    /\ pc = "idle"
    /\ argv = NoArgs
    /\ run = NoRun
    /\ opt = NoOpt
    /\ del = NoDel
    /\ out = NoOut
    /\ hist = [disk0 |-> disk, dirs0 |-> dirs, manifest0 |-> manifest,
               review0 |-> review, runs |-> 0,
               external |-> 0, service_count |-> 0,
               shrink_log |-> <<>>, fetched |-> {}]

\* ------------------------------------------------------------------------
\* main and the entry points
\* ------------------------------------------------------------------------
\* between two invocations; a terminated invocation ends the behaviour
Between == pc \in {"idle", "done"}

Begin ==
    [hist EXCEPT !.disk0 = disk, !.dirs0 = dirs, !.manifest0 = manifest,
                 !.review0 = review, !.runs = @ + 1,
                                  !.shrink_log = <<>>, !.fetched = {}]

\* sys.exit(code) before any work
exit_with(code, why) ==
    /\ run' = [NoRun EXCEPT !.mode = "exit"]
    /\ out' = [code |-> code, why |-> why]
    /\ pc' = "done"
    /\ opt' = NoOpt
    /\ del' = NoDel
    /\ hist' = Begin
    /\ UNCHANGED <<disk, dirs, manifest, review, sources>>

run_analyze(images, strict) ==
    LET part == detect_unused(images, disk, dirs, sources, strict)
    IN  /\ run' = [NoRun EXCEPT !.mode = "analyze", !.strict = strict]
        /\ out' = [code |-> 0,
                   total |-> [files |-> Len(images),
                              size_bytes |-> SumSize(part.used) + SumSize(part.unused)],
                   used |-> [files |-> Len(part.used),
                             size_bytes |-> SumSize(part.used), items |-> part.used],
                   unused |-> [files |-> Len(part.unused),
                               size_bytes |-> SumSize(part.unused),
                               items |-> part.unused]]
        /\ pc' = "done"
        /\ opt' = NoOpt
        /\ del' = NoDel
        /\ hist' = Begin
        /\ UNCHANGED <<disk, dirs, manifest, review, sources>>

\* run_optimize up to the compression loop
run_optimize(images, do_compress, do_delete, backup, strict) ==
    LET part == detect_unused(images, disk, dirs, sources, strict)
    IN  /\ run' = [mode |-> "optimize", do_compress |-> do_compress,
                   do_delete |-> do_delete, backup |-> backup, strict |-> strict]
        /\ opt' = [NoOpt EXCEPT !.images = images, !.used = part.used,
                                 !.unused = part.unused, !.i = 1]
        /\ pc' = IF do_compress /\ part.used # <<>> THEN "shrink" ELSE "propose"
        /\ out' = NoOut
        /\ del' = NoDel
        /\ hist' = Begin
        /\ UNCHANGED <<disk, dirs, manifest, review, sources>>

\* a missing manifest taken for an empty one: nothing to delete, exit 0
confirm_without_manifest_as_empty ==
    /\ out' = [code |-> 0, deleted |-> 0, freed_bytes |-> 0, items |-> <<>>]
    /\ pc' = "done"
    /\ del' = NoDel
    /\ UNCHANGED <<disk, dirs, manifest, review, sources>>

\* if not os.path.exists(manifest_path): ERROR and sys.exit(1)
confirm_without_manifest ==
    /\ out' = [code |-> 1, why |-> "MissingManifest"]
    /\ pc' = "done"
    /\ del' = NoDel
    /\ UNCHANGED <<disk, dirs, manifest, review, sources>>

\* the entries read from the copy embedded in the review page
load_manifest_files_of_review == review[1].files

\* json.load(f) and manifest.get("files", [])
load_manifest_files == manifest[1].files

\* run_confirm_delete up to the deletion loop
run_confirm_delete(backup) ==
    /\ run' = [NoRun EXCEPT !.mode = "confirm", !.backup = backup]
    /\ opt' = NoOpt
    /\ hist' = Begin
    /\ IF manifest = <<>>
       THEN confirm_without_manifest
       ELSE IF load_manifest_files = <<>>
       THEN /\ manifest' = <<>>
            /\ out' = [code |-> 0, deleted |-> 0, freed_bytes |-> 0, items |-> <<>>]
            /\ pc' = "done"
            /\ del' = NoDel
            /\ UNCHANGED <<disk, dirs, review, sources>>
       ELSE /\ del' = [NoDel EXCEPT !.files = load_manifest_files, !.j = 1]
            /\ out' = NoOut
            /\ pc' = "del"
            /\ UNCHANGED <<disk, dirs, manifest, review, sources>>

\* the command lines: the flags, and whether TINYPNG_API_KEY is set
AllArgs ==
    [analyze : BOOLEAN, compress : BOOLEAN, delete_unused : BOOLEAN,
     confirm_delete : BOOLEAN, backup : BOOLEAN, strict : BOOLEAN,
     has_key : BOOLEAN]

\* main without get_api_key: run_optimize is entered whatever the environment
main_without_preflight(args) ==
    LET images == find_images(disk, dirs)
    IN  IF args.confirm_delete THEN run_confirm_delete(args.backup)
        ELSE IF images = <<>> THEN exit_with(0, "NoImages")
        ELSE IF args.analyze THEN run_analyze(images, args.strict)
        ELSE IF args.compress \/ args.delete_unused
             THEN run_optimize(images, args.compress, args.delete_unused,
                               args.backup, args.strict)
        ELSE exit_with(1, "Usage")

\* main with --analyze tested after --compress and --delete-unused
main_analyze_last(args) ==
    LET images == find_images(disk, dirs)
    IN  IF args.confirm_delete THEN run_confirm_delete(args.backup)
        ELSE IF images = <<>> THEN exit_with(0, "NoImages")
        ELSE IF args.compress \/ args.delete_unused
             THEN IF args.compress /\ ~args.has_key
                  THEN exit_with(1, "MissingCredential")
                  ELSE run_optimize(images, args.compress, args.delete_unused,
                                    args.backup, args.strict)
        ELSE IF args.analyze THEN run_analyze(images, args.strict)
        ELSE exit_with(1, "Usage")

\* main (the project directory exists)
main(args) ==
    LET images == find_images(disk, dirs)
    IN  IF args.confirm_delete THEN run_confirm_delete(args.backup)
        ELSE IF images = <<>> THEN exit_with(0, "NoImages")
        ELSE IF args.analyze THEN run_analyze(images, args.strict)
        ELSE IF args.compress \/ args.delete_unused
             THEN IF args.compress /\ ~args.has_key
                  THEN exit_with(1, "MissingCredential")
                  ELSE run_optimize(images, args.compress, args.delete_unused,
                                    args.backup, args.strict)
        ELSE exit_with(1, "Usage")

\* ------------------------------------------------------------------------
\* run_optimize: the compression loop, one used asset at a time
\* ------------------------------------------------------------------------
current == opt.used[opt.i]

after_item == IF opt.i >= Len(opt.used) THEN "propose" ELSE "shrink"

next_item(o) == [o EXCEPT !.i = @ + 1, !.resp = <<>>, !.data = <<>>]

\* the try around the whole loop: the first failure ends the loop
compress_error_ends_loop(msg) ==
    /\ opt' = next_item([opt EXCEPT !.compress_errors =
                           Append(@, [file |-> current.rel_path, error |-> msg])])
    /\ pc' = "propose"

\* except Exception as e: compress_errors.append(...), and on to the next
compress_error(msg) ==
    /\ opt' = next_item([opt EXCEPT !.compress_errors =
                           Append(@, [file |-> current.rel_path, error |-> msg])])
    /\ pc' = after_item

\* response.headers.get("Compression-Count", "?"): the service counts its
\* compressions of the month, this one included
compression_count_header == ToString(hist.service_count + 1)

\* what compress_file returns as compression_count: the header, or the
\* default when the response carries none
CompressionCounts == {compression_count_header, UNKNOWN_COUNT}

\* the counter of the first answer kept for the rest of the run
set_compression_count_once(o, count) ==
    [o EXCEPT !.compression_count = IF @ = UNKNOWN_COUNT THEN count ELSE @]

\* output_url, input_size, output_size, compression_count = compress_file(...)
set_compression_count(o, count) == [o EXCEPT !.compression_count = count]

\* compress_file returns, then the skip-if-negligible decision
shrink ==
    /\ pc = "shrink"
    /\ \E sz \in ShrinkSizes, count \in CompressionCounts :
         /\ hist' = [hist EXCEPT !.service_count = @ + 1,
                                 !.shrink_log =
                       Append(@, [file |-> current.rel_path,
                                  input_size |-> sz[1], output_size |-> sz[2],
                                  compression_count |-> count])]
         /\ IF is_skip(sz[1], sz[2])
            THEN /\ opt' = next_item([set_compression_count(opt, count) EXCEPT
                              !.compressed_results =
                                  Append(@, [file |-> current.rel_path,
                                             status |-> "skipped",
                                             original_size |-> sz[1],
                                             compressed_size |-> sz[2]])])
                 /\ pc' = after_item
            ELSE /\ opt' = [set_compression_count(opt, count) EXCEPT !.resp = sz]
                 /\ pc' = IF run.backup THEN "backup" ELSE "fetch"
    /\ UNCHANGED <<disk, dirs, manifest, review, sources, argv, run, del, out>>

\* compress_file raises: the upload failed or the service answered non-2xx
shrink_fails ==
    /\ pc = "shrink"
    /\ compress_error("upload")
    /\ UNCHANGED <<disk, dirs, manifest, review, sources, argv, run, del, out, hist>>

\* the download started without the copy having been made
backup_original_without_copy ==
    /\ pc = "backup"
    /\ pc' = "fetch"
    /\ UNCHANGED <<disk, dirs, manifest, review, sources, argv, run, opt, del, out, hist>>

\* shutil.copy2(fpath, fpath + ".bak")
backup_original ==
    /\ pc = "backup"
    /\ disk' = WriteFile(disk, bak_path(current.path), disk[current.path])
    /\ pc' = "fetch"
    /\ UNCHANGED <<dirs, manifest, review, sources, argv, run, opt, del, out, hist>>

backup_original_fails ==
    /\ pc = "backup"
    /\ compress_error("backup")
    /\ UNCHANGED <<disk, dirs, manifest, review, sources, argv, run, del, out, hist>>

\* download_file: data = response.read()
download_fetch ==
    /\ pc = "fetch"
    /\ \E data \in NewData : opt' = [opt EXCEPT !.data = data]
    /\ hist' = [hist EXCEPT !.fetched = @ \cup {current.path}]
    /\ pc' = "open"
    /\ UNCHANGED <<disk, dirs, manifest, review, sources, argv, run, del, out>>

\* the asset opened for writing before the response is read
download_fetch_fails_after_open ==
    /\ pc = "fetch"
    /\ compress_error("download")
    /\ disk' = WriteFile(disk, current.path, <<>>)
    /\ hist' = [hist EXCEPT !.fetched = @ \cup {current.path}]
    /\ UNCHANGED <<dirs, manifest, review, sources, argv, run, del, out>>

\* download_file: urlopen or response.read() raises
download_fetch_fails ==
    /\ pc = "fetch"
    /\ compress_error("download")
    /\ hist' = [hist EXCEPT !.fetched = @ \cup {current.path}]
    /\ UNCHANGED <<disk, dirs, manifest, review, sources, argv, run, del, out>>

\* download_file: open(dest, "wb") truncates the asset
download_open ==
    /\ pc = "open"
    /\ disk' = WriteFile(disk, current.path, <<>>)
    /\ pc' = "write"
    /\ UNCHANGED <<dirs, manifest, review, sources, argv, run, opt, del, out, hist>>

\* the bookkeeping of run_optimize after download_file returned
record_compressed(o) ==
    LET saved == o.resp[1] - o.resp[2]
    IN  next_item([o EXCEPT
            !.total_compressed_saved = @ + saved,
            !.total_compressed_original = @ + o.resp[1],
            !.compressed_results =
                Append(@, [file |-> o.used[o.i].rel_path, status |-> "compressed",
                           original_size |-> o.resp[1],
                           compressed_size |-> o.resp[2],
                           saved_bytes |-> saved])])

\* download_file: f.write(data) reaches the disk byte after byte; with the
\* last byte the file is closed and the outcome recorded
download_write ==
    /\ pc = "write"
    /\ LET written == Append(disk[current.path],
                             opt.data[Len(disk[current.path]) + 1])
       IN  /\ disk' = WriteFile(disk, current.path, written)
           /\ IF Len(written) = Len(opt.data)
              THEN opt' = record_compressed(opt) /\ pc' = after_item
              ELSE UNCHANGED <<opt, pc>>
    /\ UNCHANGED <<dirs, manifest, review, sources, argv, run, del, out, hist>>

\* download_file: the write raises (disk full, I/O error)
download_write_fails ==
    /\ pc = "write"
    /\ compress_error("write")
    /\ UNCHANGED <<disk, dirs, manifest, review, sources, argv, run, del, out, hist>>

\* ------------------------------------------------------------------------
\* run_optimize: propose and report
\* ------------------------------------------------------------------------
\* propose that removes the unused files at once
propose_and_delete ==
    /\ pc = "propose"
    /\ IF run.do_delete /\ opt.unused # <<>>
       THEN /\ manifest' = <<make_manifest(opt.unused)>>
            /\ review' = <<make_manifest(opt.unused)>>
            /\ disk' = [q \in (DOMAIN disk) \ {opt.unused[n].path : n \in DOMAIN opt.unused}
                          |-> disk[q]]
       ELSE UNCHANGED <<manifest, review, disk>>
    /\ pc' = "report"
    /\ UNCHANGED <<dirs, sources, argv, run, opt, del, out, hist>>

\* propose without the test of unused: an empty manifest is written too
propose_always_writes ==
    /\ pc = "propose"
    /\ IF run.do_delete
       THEN /\ manifest' = <<make_manifest(opt.unused)>>
            /\ review' = <<make_manifest(opt.unused)>>
       ELSE UNCHANGED <<manifest, review>>
    /\ pc' = "report"
    /\ UNCHANGED <<disk, dirs, sources, argv, run, opt, del, out, hist>>

\* propose that keeps a manifest it finds
propose_unless_manifest ==
    /\ pc = "propose"
    /\ IF run.do_delete /\ opt.unused # <<>> /\ manifest = <<>>
       THEN /\ manifest' = <<make_manifest(opt.unused)>>
            /\ review' = <<make_manifest(opt.unused)>>
       ELSE UNCHANGED <<manifest, review>>
    /\ pc' = "report"
    /\ UNCHANGED <<disk, dirs, sources, argv, run, opt, del, out, hist>>

\* if do_delete and unused: write the manifest and the review page
propose ==
    /\ pc = "propose"
    /\ IF run.do_delete /\ opt.unused # <<>>
       THEN /\ manifest' = <<make_manifest(opt.unused)>>
            /\ review' = <<make_manifest(opt.unused)>>
       ELSE UNCHANGED <<manifest, review>>
    /\ pc' = "report"
    /\ UNCHANGED <<disk, dirs, sources, argv, run, opt, del, out, hist>>

count_status(results, st) ==
    Cardinality({n \in DOMAIN results : results[n].status = st})

make_report(o, do_delete) ==
    LET initial_total_size == SumSize(o.used) + SumSize(o.unused)
    IN  [code |-> 0,
         before |-> [files |-> Len(o.images), size_bytes |-> initial_total_size],
         after |-> [files |-> Len(o.images),
                    size_bytes |-> initial_total_size - o.total_compressed_saved],
         compression |->
             [files_compressed |-> count_status(o.compressed_results, "compressed"),
              files_skipped |-> count_status(o.compressed_results, "skipped"),
              original_bytes |-> o.total_compressed_original,
              saved_bytes |-> o.total_compressed_saved,
              results |-> o.compressed_results,
              errors |-> o.compress_errors],
         deletion_pending |->
             [files |-> IF do_delete THEN Len(o.unused) ELSE 0,
              size_bytes |-> IF do_delete THEN SumSize(o.unused) ELSE 0],
         total_saved_bytes |-> o.total_compressed_saved,
         api_compressions_this_month |-> o.compression_count]

report ==
    /\ pc = "report"
    /\ out' = make_report(opt, run.do_delete)
    /\ pc' = "done"
    /\ UNCHANGED <<disk, dirs, manifest, review, sources, argv, run, opt, del, hist>>

\* ------------------------------------------------------------------------
\* run_confirm_delete: the deletion loop, one manifest entry at a time
\* ------------------------------------------------------------------------
entry == del.files[del.j]

\* on to the next entry; after the last one the parent directories of the
\* manifest's entries are queued, longest path first
next_entry(d) ==
    [d EXCEPT !.j = @ + 1,
              !.queue = IF d.j >= Len(d.files)
                        THEN sort_by_len_desc(parent_dirs(d.files)) ELSE @]

after_entry == IF del.j >= Len(del.files) THEN "rmdirs" ELSE "del"

\* break for continue: an entry that is gone ends the loop
skip_gone_ends_loop ==
    /\ pc = "del"
    /\ ~exists(entry.path)
    /\ del' = [del EXCEPT !.skip_lines = Append(@, entry.rel_path),
                          !.queue = sort_by_len_desc(parent_dirs(del.files))]
    /\ pc' = "rmdirs"
    /\ UNCHANGED <<disk, dirs, manifest, review, sources, argv, run, opt, out, hist>>

\* if not os.path.exists(fpath): SKIP (already gone)
skip_gone ==
    /\ pc = "del"
    /\ ~exists(entry.path)
    /\ del' = next_entry([del EXCEPT !.skip_lines = Append(@, entry.rel_path)])
    /\ pc' = after_entry
    /\ UNCHANGED <<disk, dirs, manifest, review, sources, argv, run, opt, out, hist>>

\* the file system after the optional backup copy of the entry's file
backed_up(fs) ==
    IF run.backup THEN WriteFile(fs, backup_path(entry), fs[entry.path]) ELSE fs

backed_up_dirs(ds) ==
    IF run.backup THEN makedirs(ds, dirname(backup_path(entry))) ELSE ds

\* deleted_total_size = size for += size
delete_file_last_size ==
    /\ pc = "del"
    /\ exists(entry.path)
    /\ disk' = RemoveFile(backed_up(disk), entry.path)
    /\ dirs' = backed_up_dirs(dirs)
    /\ del' = next_entry([del EXCEPT
                  !.deleted_total_size = entry.size,
                  !.deleted_results =
                      Append(@, [file |-> entry.rel_path, size |-> entry.size])])
    /\ pc' = after_entry
    /\ UNCHANGED <<manifest, review, sources, argv, run, opt, out, hist>>

\* backup (with --backup), os.remove(fpath), and the bookkeeping
delete_file ==
    /\ pc = "del"
    /\ exists(entry.path)
    /\ disk' = RemoveFile(backed_up(disk), entry.path)
    /\ dirs' = backed_up_dirs(dirs)
    /\ del' = next_entry([del EXCEPT
                  !.deleted_total_size = @ + entry.size,
                  !.deleted_results =
                      Append(@, [file |-> entry.rel_path, size |-> entry.size])])
    /\ pc' = after_entry
    /\ UNCHANGED <<manifest, review, sources, argv, run, opt, out, hist>>

\* except Exception as e: print ERROR deleting, and on to the next entry
delete_error ==
    /\ del' = next_entry([del EXCEPT !.error_lines = Append(@, entry.rel_path)])
    /\ pc' = after_entry

\* the file removed although its backup copy could not be made
delete_backup_fails_removes ==
    /\ pc = "del"
    /\ exists(entry.path)
    /\ run.backup
    /\ dirs' \in {dirs, backed_up_dirs(dirs)}
    /\ disk' = RemoveFile(disk, entry.path)
    /\ delete_error
    /\ UNCHANGED <<manifest, review, sources, argv, run, opt, out, hist>>

\* os.makedirs or shutil.copy2 of the backup raises: nothing is removed
delete_backup_fails ==
    /\ pc = "del"
    /\ exists(entry.path)
    /\ run.backup
    /\ dirs' \in {dirs, backed_up_dirs(dirs)}
    /\ delete_error
    /\ UNCHANGED <<disk, manifest, review, sources, argv, run, opt, out, hist>>

\* os.remove(fpath) raises: the file stays, a backup copy may have been made
delete_remove_fails ==
    /\ pc = "del"
    /\ exists(entry.path)
    /\ disk' = backed_up(disk)
    /\ dirs' = backed_up_dirs(dirs)
    /\ delete_error
    /\ UNCHANGED <<manifest, review, sources, argv, run, opt, out, hist>>

isdir(d) == d = <<>> \/ d \in dirs

\* the directory removed without the test of os.listdir
remove_dir_unchecked ==
    /\ pc = "rmdirs"
    /\ LET d == Head(del.queue)
       IN  \E rmdir_ok \in BOOLEAN :
             /\ rmdir_ok => isdir(d)
             /\ dirs' = IF rmdir_ok THEN dirs \ {d} ELSE dirs
             /\ del' = [del EXCEPT !.queue = Tail(@),
                                   !.removed_dirs = IF rmdir_ok THEN @ \cup {d} ELSE @]
    /\ pc' = IF Tail(del.queue) = <<>> THEN "finish" ELSE "rmdirs"
    /\ UNCHANGED <<disk, manifest, review, sources, argv, run, opt, out, hist>>

\* one directory of the queue: rmdir it if it is an empty directory; an
\* exception (its rmdir fails) is swallowed
remove_empty_dir ==
    /\ pc = "rmdirs"
    /\ LET d == Head(del.queue)
           removable == isdir(d) /\ IsEmptyDir(d, disk, dirs, manifest, review)
       IN  \E rmdir_ok \in BOOLEAN :
             /\ rmdir_ok => removable
             /\ dirs' = IF rmdir_ok THEN dirs \ {d} ELSE dirs
             /\ del' = [del EXCEPT !.queue = Tail(@),
                                   !.removed_dirs = IF rmdir_ok THEN @ \cup {d} ELSE @]
    /\ pc' = IF Tail(del.queue) = <<>> THEN "finish" ELSE "rmdirs"
    /\ UNCHANGED <<disk, manifest, review, sources, argv, run, opt, out, hist>>

\* the manifest kept when an entry could not be deleted
finish_confirm_unless_errors ==
    /\ pc = "finish"
    /\ manifest' = IF del.error_lines = <<>> THEN <<>> ELSE manifest
    /\ out' = [code |-> 0, deleted |-> Len(del.deleted_results),
               freed_bytes |-> del.deleted_total_size,
               items |-> del.deleted_results]
    /\ pc' = "done"
    /\ UNCHANGED <<disk, dirs, review, sources, argv, run, opt, del, hist>>

\* os.remove(manifest_path) and the result
finish_confirm ==
    /\ pc = "finish"
    /\ manifest' = <<>>
    /\ out' = [code |-> 0, deleted |-> Len(del.deleted_results),
               freed_bytes |-> del.deleted_total_size,
               items |-> del.deleted_results]
    /\ pc' = "done"
    /\ UNCHANGED <<disk, dirs, review, sources, argv, run, opt, del, hist>>

\* ------------------------------------------------------------------------
\* The environment
\* ------------------------------------------------------------------------
\* nothing is left of the last invocation but the files
Forgotten ==
    /\ pc' = "idle"
    /\ argv' = NoArgs
    /\ run' = NoRun
    /\ opt' = NoOpt
    /\ del' = NoDel
    /\ out' = NoOut

\* the reviewer unchecks entries on the review page and saves its export
\* over the manifest
review_edit ==
    /\ Between
    /\ manifest # <<>>
    /\ review # <<>>
    /\ \E n \in DOMAIN manifest[1].files :
         manifest' = <<review_without(manifest[1], n)>>
    /\ Forgotten
    /\ UNCHANGED <<disk, dirs, review, sources, hist>>

\* somebody removes an image between two invocations
external_remove ==
    /\ Between
    /\ hist.external < MaxExternal
    /\ \E p \in Images \cap DOMAIN disk : disk' = RemoveFile(disk, p)
    /\ hist' = [hist EXCEPT !.external = @ + 1]
    /\ Forgotten
    /\ UNCHANGED <<dirs, manifest, review, sources>>

\* the process is terminated in the middle of an invocation
kill ==
    /\ ~Between
    /\ pc' = "killed"
    /\ UNCHANGED <<disk, dirs, manifest, review, sources, argv, run, opt, del, out, hist>>

\* ------------------------------------------------------------------------
\* The deletion workflow: propose, review, confirm
\* ------------------------------------------------------------------------
\* --delete-unused [--strict] and --confirm-delete [--backup]
DeleteArgs ==
    {a \in AllArgs :
        /\ ~a.analyze /\ ~a.compress /\ a.has_key
        /\ a.confirm_delete # a.delete_unused
        /\ a.confirm_delete => ~a.strict
        /\ a.delete_unused => ~a.backup}

invoke_delete ==
    /\ Between
    /\ hist.runs < MaxRuns
    /\ \E args \in DeleteArgs : argv' = args /\ main(args)

NextDelete ==
    \/ invoke_delete
    \/ propose
    \/ report
    \/ skip_gone
    \/ delete_file
    \/ delete_backup_fails
    \/ delete_remove_fails
    \/ remove_empty_dir
    \/ finish_confirm
    \/ review_edit
    \/ external_remove
    \/ kill

SpecDelete == Init /\ [][NextDelete]_vars

\* ------------------------------------------------------------------------
\* The run_optimize runs: compression, then propose
\* ------------------------------------------------------------------------
\* --compress and / or --delete-unused, [--backup], with the credential set
OptimizeArgs ==
    {a \in AllArgs :
        /\ a.compress \/ a.delete_unused
        /\ a.has_key /\ ~a.analyze /\ ~a.confirm_delete /\ ~a.strict
        /\ a.backup => a.compress}

invoke_optimize ==
    /\ Between
    /\ hist.runs < MaxOptimizeRuns
    /\ \E args \in OptimizeArgs : argv' = args /\ main(args)

NextOptimize ==
    \/ invoke_optimize
    \/ shrink
    \/ shrink_fails
    \/ backup_original
    \/ backup_original_fails
    \/ download_fetch
    \/ download_fetch_fails
    \/ download_open
    \/ download_write
    \/ download_write_fails
    \/ propose
    \/ report
    \/ kill

SpecOptimize == Init /\ [][NextOptimize]_vars

\* ------------------------------------------------------------------------
\* The invocations with TINYPNG_API_KEY unset or empty: every flag combination
\* ------------------------------------------------------------------------
NoKeyArgs == {a \in AllArgs : ~a.has_key}

invoke_without_key ==
    /\ Between
    /\ hist.runs < MaxNoKeyRuns
    /\ \E args \in NoKeyArgs : argv' = args /\ main(args)

NextNoKey ==
    \/ invoke_without_key
    \/ propose
    \/ report
    \/ skip_gone
    \/ delete_file
    \/ delete_backup_fails
    \/ delete_remove_fails
    \/ remove_empty_dir
    \/ finish_confirm
    \/ external_remove
    \/ kill

SpecNoKey == Init /\ [][NextNoKey]_vars

\* ------------------------------------------------------------------------
\* The runs with --backup: compress and propose, then confirm, and again
\* ------------------------------------------------------------------------
\* --compress --delete-unused --backup and --confirm-delete --backup; every
\* run goes to its end and nobody else touches the project, so that each
\* file of a later run that is not an image of the project is a backup
BackupArgs ==
    {a \in AllArgs :
        /\ a.backup /\ a.has_key /\ ~a.analyze /\ ~a.strict
        /\ a.compress = a.delete_unused
        /\ a.confirm_delete # a.compress}

invoke_with_backup ==
    /\ Between
    /\ hist.runs < MaxBackupRuns
    /\ \E args \in BackupArgs : argv' = args /\ main(args)

NextBackup ==
    \/ invoke_with_backup
    \/ shrink
    \/ shrink_fails
    \/ backup_original
    \/ backup_original_fails
    \/ download_fetch
    \/ download_fetch_fails
    \/ download_open
    \/ download_write
    \/ download_write_fails
    \/ propose
    \/ report
    \/ delete_file
    \/ delete_backup_fails
    \/ delete_remove_fails
    \/ remove_empty_dir
    \/ finish_confirm

SpecBackup == Init /\ [][NextBackup]_vars

\* ------------------------------------------------------------------------
\* Properties
\* ------------------------------------------------------------------------
paths_of(entries) == {entries[n].path : n \in DOMAIN entries}

manifest_paths(m) == IF m = <<>> THEN {} ELSE paths_of(m[1].files)

index_of(entries, rel) == CHOOSE n \in DOMAIN entries : entries[n].rel_path = rel

used_path(rel) == opt.used[index_of(opt.used, rel)].path

\* C1: detect_unused puts every image of the inventory in exactly one of
\* used and unused: the two lists share no path, hold together exactly the
\* inventory's paths, and hold no path twice.
C1_Partition ==
    run.mode = "optimize" =>
        /\ paths_of(opt.used) \cap paths_of(opt.unused) = {}
        /\ paths_of(opt.used) \cup paths_of(opt.unused) = Range(opt.images)
        /\ Len(opt.used) + Len(opt.unused) = Len(opt.images)

C1_Witness ==
    /\ run.mode = "optimize"
    /\ opt.used # <<>>
    /\ opt.unused # <<>>
    /\ Len(opt.images) < Cardinality(Images)

\* C2: at every point of a confirm, a file that existed when the confirm
\* started and whose path is no entry of the manifest as it was on disk at
\* that moment (an entry unchecked by the reviewer, or never listed) still
\* exists.
C2_OnlyListedFilesDeleted ==
    run.mode = "confirm" =>
        \A p \in DOMAIN hist.disk0 :
            p \notin manifest_paths(hist.manifest0) => p \in DOMAIN disk

C2_Witness ==
    /\ pc = "done"
    /\ run.mode = "confirm"
    /\ del.deleted_results # <<>>
    /\ hist.manifest0 # <<>>
    /\ review # <<>>
    /\ \E e \in Range(review[1].files) :
          e.path \notin manifest_paths(hist.manifest0) /\ e.path \in DOMAIN disk

\* C3: a run_optimize with do_delete deletes nothing: every file and
\* directory that existed when it started exists at each of its points;
\* without --compress no byte file changes at all, and with --compress the
\* only byte files created or changed are used assets and their .bak
\* siblings (the unused assets, which the manifest lists, are untouched).
C3_ProposeDeletesNothing ==
    (run.mode = "optimize" /\ run.do_delete) =>
        /\ DOMAIN hist.disk0 \subseteq DOMAIN disk
        /\ dirs = hist.dirs0
        /\ ~run.do_compress => disk = hist.disk0
        /\ \A p \in DOMAIN disk :
              (p \notin DOMAIN hist.disk0 \/ disk[p] # hist.disk0[p]) =>
                  \E n \in DOMAIN opt.used :
                      p \in {opt.used[n].path, bak_path(opt.used[n].path)}

C3_Witness ==
    /\ pc = "done"
    /\ run.mode = "optimize"
    /\ run.do_delete
    /\ manifest # <<>>
    /\ manifest # hist.manifest0
    /\ Len(manifest[1].files) > 1
    /\ count_status(opt.compressed_results, "compressed") > 0

\* C4: a confirm that finds no manifest ends at once with exit code 1
\* (MissingManifest) and leaves every file and directory as it was, with
\* and without --backup.
C4_MissingManifest ==
    (run.mode = "confirm" /\ hist.manifest0 = <<>>) =>
        /\ pc = "done"
        /\ out.code = 1
        /\ out.why = "MissingManifest"
        /\ disk = hist.disk0
        /\ dirs = hist.dirs0
        /\ manifest = <<>>

C4_Witness ==
    /\ run.mode = "confirm"
    /\ hist.manifest0 = <<>>
    /\ run.backup
    /\ review # <<>>
    /\ DOMAIN disk # {}

\* C5: a confirm that started with a manifest ends with no manifest, also
\* when its file list is empty, entries were gone or a deletion or backup
\* failed; and a confirm invoked right after a finished confirm ends with
\* MissingManifest.
C5_ManifestConsumed ==
    [][ /\ (pc' = "done" /\ run'.mode = "confirm" /\ hist'.manifest0 # <<>>)
            => manifest' = <<>>
        /\ (pc = "done" /\ run.mode = "confirm"
              /\ run'.mode = "confirm" /\ hist'.runs = hist.runs + 1)
            => (pc' = "done" /\ out'.code = 1 /\ out'.why = "MissingManifest")
      ]_vars

C5_Witness ==
    /\ pc = "done"
    /\ run.mode = "confirm"
    /\ hist.manifest0 # <<>>
    /\ del.error_lines # <<>>
    /\ del.skip_lines # <<>>
    /\ manifest = <<>>

\* C6: when the manifest a confirm starts with is the one propose wrote
\* (equal to the copy embedded in the review page), every listed file
\* exists, and the file system refuses no backup and no removal, the
\* confirm removes exactly the N listed files, reports deleted = N and
\* freed_bytes = the sum of the sizes recorded in the manifest, and leaves
\* no manifest.
C6_RoundTrip ==
    ( /\ pc = "done"
      /\ run.mode = "confirm"
      /\ hist.manifest0 # <<>>
      /\ hist.manifest0 = review
      /\ manifest_paths(hist.manifest0) \subseteq DOMAIN hist.disk0
      /\ del.error_lines = <<>> ) =>
        /\ (DOMAIN hist.disk0) \ (DOMAIN disk) = manifest_paths(hist.manifest0)
        /\ out.deleted = Len(hist.manifest0[1].files)
        /\ out.deleted = hist.manifest0[1].total_unused_files
        /\ out.freed_bytes = SumSize(hist.manifest0[1].files)
        /\ out.freed_bytes = hist.manifest0[1].total_unused_size
        /\ manifest = <<>>

C6_Witness ==
    /\ pc = "done"
    /\ run.mode = "confirm"
    /\ hist.manifest0 # <<>>
    /\ hist.manifest0 = review
    /\ manifest_paths(hist.manifest0) \subseteq DOMAIN hist.disk0
    /\ del.error_lines = <<>>
    /\ out.deleted = Cardinality(Images)

\* C7: a finished confirm has skipped every entry whose file was gone
\* without an error line, counted it neither in deleted nor in freed_bytes,
\* has handled every other entry (each entry is skipped, deleted or failed,
\* exactly one of them), and has removed the manifest.
C7_GoneEntriesSkipped ==
    (pc = "done" /\ run.mode = "confirm" /\ del.files # <<>>) =>
        /\ \A n \in DOMAIN del.files :
              del.files[n].path \notin DOMAIN hist.disk0 =>
                  /\ del.files[n].rel_path \in Range(del.skip_lines)
                  /\ del.files[n].rel_path \notin Range(del.error_lines)
                  /\ \A k \in DOMAIN out.items :
                        out.items[k].file # del.files[n].rel_path
        /\ out.deleted = Len(out.items)
        /\ out.freed_bytes = SumSize(out.items)
        /\ Len(del.skip_lines) + Len(del.error_lines) + Len(out.items)
              = Len(del.files)
        /\ manifest = <<>>

C7_Witness ==
    /\ pc = "done"
    /\ run.mode = "confirm"
    /\ Len(del.files) > 1
    /\ del.files[1].path \notin DOMAIN hist.disk0
    /\ out.deleted > 0

in_used_order(files) ==
    \A a, b \in DOMAIN files :
        a < b => index_of(opt.used, files[a].file) < index_of(opt.used, files[b].file)

\* C8: in a compression run every used asset is attempted, in inventory
\* order, and leaves exactly one outcome, whatever fails: when the next
\* asset is attempted each earlier one has its outcome, after the loop the
\* outcomes are as many as the used assets, no asset has two, and the
\* report's files_compressed + files_skipped + errors is the number of used
\* assets.
C8_OneOutcomePerAsset ==
    (run.mode = "optimize" /\ run.do_compress) =>
        LET files == [n \in DOMAIN opt.compressed_results |->
                         opt.compressed_results[n].file]
                     \o [n \in DOMAIN opt.compress_errors |->
                            opt.compress_errors[n].file]
        IN  /\ Cardinality(Range(files)) = Len(files)
            /\ in_used_order(opt.compressed_results)
            /\ in_used_order(opt.compress_errors)
            /\ pc = "shrink" =>
                  Range(files) = {opt.used[n].rel_path : n \in 1..(opt.i - 1)}
            /\ pc \in {"propose", "report", "done"} =>
                  Range(files) = {opt.used[n].rel_path : n \in DOMAIN opt.used}
            /\ pc = "done" =>
                  out.compression.files_compressed + out.compression.files_skipped
                      + Len(out.compression.errors) = Len(opt.used)

C8_Witness ==
    /\ pc = "done"
    /\ run.mode = "optimize"
    /\ Len(opt.used) > 1
    /\ opt.compress_errors # <<>>
    /\ opt.compress_errors[1].file = opt.used[1].rel_path
    /\ out.compression.files_compressed > 0

\* savings below 1 percent of input_size (input_size = 0 included)
below_one_percent(input_size, output_size) ==
    input_size = 0 \/ 100 * (input_size - output_size) < input_size

\* C9: an outcome is skipped exactly for the answers of the shrink service
\* whose savings are below 1 percent of input_size (input_size = 0
\* included), and then the asset's bytes are those it had and no download
\* was made for it; an outcome compressed has savings of at least 1
\* percent, saved_bytes = input_size - output_size and the asset holds the
\* downloaded bytes; an answer with savings of at least 1 percent is never
\* skipped: its asset is being overwritten, is compressed, or failed in the
\* backup or the download.
C9_SkipBelowOnePercent ==
    run.mode = "optimize" =>
        /\ \A n \in DOMAIN opt.compressed_results :
              LET r == opt.compressed_results[n]
                  p == used_path(r.file)
              IN  /\ r.status = "skipped" =>
                        /\ below_one_percent(r.original_size, r.compressed_size)
                        /\ disk[p] = hist.disk0[p]
                        /\ p \notin hist.fetched
                  /\ r.status = "compressed" =>
                        /\ ~below_one_percent(r.original_size, r.compressed_size)
                        /\ r.saved_bytes = r.original_size - r.compressed_size
                        /\ p \in hist.fetched
                        /\ disk[p] \in NewData
        /\ \A k \in DOMAIN hist.shrink_log :
              LET a == hist.shrink_log[k]
                  outcome(st) ==
                      \E n \in DOMAIN opt.compressed_results :
                          /\ opt.compressed_results[n].file = a.file
                          /\ opt.compressed_results[n].status = st
                          /\ opt.compressed_results[n].original_size = a.input_size
                          /\ opt.compressed_results[n].compressed_size = a.output_size
                  failed_later ==
                      \E n \in DOMAIN opt.compress_errors :
                          /\ opt.compress_errors[n].file = a.file
                          /\ opt.compress_errors[n].error \in {"backup", "download", "write"}
                  in_progress ==
                      /\ k = Len(hist.shrink_log)
                      /\ opt.i \in DOMAIN opt.used
                      /\ opt.used[opt.i].rel_path = a.file
                      /\ opt.resp = <<a.input_size, a.output_size>>
                      /\ pc \in {"backup", "fetch", "open", "write", "killed"}
              IN  IF below_one_percent(a.input_size, a.output_size)
                  THEN outcome("skipped")
                  ELSE /\ ~outcome("skipped")
                       /\ in_progress \/ outcome("compressed") \/ failed_later

C9_Witness ==
    /\ pc = "done"
    /\ run.mode = "optimize"
    /\ \E n, m \in DOMAIN opt.compressed_results :
          /\ opt.compressed_results[n].status = "skipped"
          /\ opt.compressed_results[n].original_size = 1000
          /\ opt.compressed_results[n].compressed_size = 995
          /\ opt.compressed_results[m].status = "compressed"
          /\ opt.compressed_results[m].original_size = 1000
          /\ opt.compressed_results[m].compressed_size = 600
          /\ opt.compressed_results[m].saved_bytes = 400

\* C10: when the process is terminated during a compression run, the asset
\* in hand holds either the complete bytes it had when the run started or
\* the complete downloaded bytes, never an empty or partly written content.
C10_NoTornOverwrite ==
    (pc = "killed" /\ run.mode = "optimize" /\ opt.i \in DOMAIN opt.used) =>
        \/ disk[current.path] = hist.disk0[current.path]
        \/ disk[current.path] \in NewData

\* C11: the api_compressions_this_month of a run_optimize report is the
\* compression_count returned by the last shrink call of the run that
\* succeeded, whatever failed before or after it (a later upload, backup or
\* download); when no call of the run succeeded it is "?".
C11_LastSuccessfulCount ==
    (pc = "done" /\ run.mode = "optimize") =>
        out.api_compressions_this_month =
            IF hist.shrink_log = <<>> THEN "?"
            ELSE hist.shrink_log[Len(hist.shrink_log)].compression_count

C11_Witness ==
    /\ pc = "done"
    /\ run.mode = "optimize"
    /\ Len(opt.used) = 2
    /\ Len(hist.shrink_log) = 1
    /\ hist.shrink_log[1].file = opt.used[1].rel_path
    /\ opt.compress_errors = <<[file |-> opt.used[2].rel_path, error |-> "upload"]>>
    /\ out.api_compressions_this_month = "1"

\* the path a raw reference of source file sf stands for: relative to the
\* directory of sf when it starts with ./ or ../, relative to the project
\* directory otherwise (assets/... included)
reference_target(sf, raw) ==
    normpath(IF raw[1] \in {".", ".."} THEN dirname(sf) \o raw ELSE raw)

\* C12: detect_unused classifies an image as used exactly when a reference
\* found in the sources (a commented-out line is none under --strict)
\* resolves to the image's path: a reference that starts with ./ or ../ is
\* resolved against the directory of the referencing file, any other is
\* taken relative to the project directory, and the resolved path must
\* equal the image's path component by component: the same file name
\* below another directory, or the same path in another letter case, does
\* not make the image used.
C12_ExactResolution ==
    run.mode = "optimize" =>
        \A p \in Range(opt.images) :
            p \in paths_of(opt.used) <=>
                \E sf \in DOMAIN sources : \E k \in DOMAIN sources[sf] :
                    /\ ~(run.strict /\ sources[sf][k].comment)
                    /\ reference_target(sf, sources[sf][k].raw) = p

C12_Witness ==
    /\ run.mode = "optimize"
    /\ ImgA \in paths_of(opt.used)
    /\ Import(FALSE, <<"..", "assets", "a.png">>) \in Range(sources[SrcMain])
    /\ ImgC \in paths_of(opt.unused)
    /\ Import(FALSE, <<"c.png">>) \in Range(sources[SrcMenu])
    /\ Import(FALSE, <<"assets", "ui", "C.PNG">>) \in Range(sources[SrcMenu])

\* C13: at every point of a run_optimize with do_delete whose unused list
\* is empty, the manifest and the review page are what they were when the
\* run started: none is written where there was none, and the ones an
\* earlier propose left are not touched.
C13_EmptyProposeWritesNothing ==
    (run.mode = "optimize" /\ run.do_delete /\ opt.unused = <<>>) =>
        /\ manifest = hist.manifest0
        /\ review = hist.review0

C13_Witness ==
    /\ pc = "done"
    /\ run.mode = "optimize"
    /\ run.do_delete
    /\ opt.unused = <<>>
    /\ opt.used # <<>>
    /\ manifest = <<>>
    /\ review = <<>>

\* C14 as stated: after a --delete-unused run a manifest at the fixed path
\* is the one that run wrote: it lists the run's unused set.
C14_ManifestIsOfLastPropose ==
    (pc = "done" /\ run.mode = "optimize" /\ run.do_delete /\ manifest # <<>>) =>
        manifest_paths(manifest) = paths_of(opt.unused)

\* C14: after a --delete-unused run whose unused set is not empty, the
\* manifest at the fixed path is the one that run wrote: it lists exactly
\* the run's unused set, whatever manifest an earlier propose or a review
\* had left there, and the review page embeds the same document; a run
\* whose unused set is empty leaves the manifest of an earlier propose in
\* place.
C14_NonEmptyProposeOverwrites ==
    (pc = "done" /\ run.mode = "optimize" /\ run.do_delete) =>
        IF opt.unused # <<>>
        THEN /\ manifest # <<>>
             /\ manifest_paths(manifest) = paths_of(opt.unused)
             /\ Len(manifest[1].files) = Len(opt.unused)
             /\ review = manifest
        ELSE manifest = hist.manifest0

C14_Witness ==
    /\ pc = "done"
    /\ run.mode = "optimize"
    /\ run.do_delete
    /\ opt.unused # <<>>
    /\ hist.manifest0 # <<>>
    /\ manifest_paths(hist.manifest0) # paths_of(opt.unused)
    /\ manifest_paths(manifest) = paths_of(opt.unused)

\* C15: the manifest propose writes lists exactly the unused assets, each
\* once, with the size it had when the run classified it, larger sizes
\* first; total_unused_files is the number of its entries and
\* total_unused_size the sum of their sizes.
C15_ManifestContent ==
    (run.mode = "optimize" /\ run.do_delete /\ opt.unused # <<>>
        /\ pc \in {"report", "done"}) =>
        LET m == manifest[1]
        IN  /\ paths_of(m.files) = paths_of(opt.unused)
            /\ Len(m.files) = Len(opt.unused)
            /\ \A n \in DOMAIN m.files :
                  m.files[n].size = Len(hist.disk0[m.files[n].path])
            /\ \A a, b \in DOMAIN m.files :
                  a < b => m.files[a].size >= m.files[b].size
            /\ m.total_unused_files = Len(m.files)
            /\ m.total_unused_size = SumSize(m.files)

C15_Witness ==
    /\ pc = "done"
    /\ run.mode = "optimize"
    /\ run.do_delete
    /\ Len(opt.unused) = Cardinality(Images)
    /\ manifest # <<>>
    /\ manifest[1].files # opt.unused
    /\ manifest[1].files[1].path = ImgC
    /\ manifest[1].total_unused_size = 6

\* the files, directories, manifest and review page are as the invocation
\* found them
files_as_found ==
    /\ disk = hist.disk0
    /\ dirs = hist.dirs0
    /\ manifest = hist.manifest0
    /\ review = hist.review0

\* C16 as stated: every invocation with --compress and without the
\* credential has ended with exit code 1 and with every file, directory,
\* manifest and review page as it found them, whatever the other flags and
\* the project.
C16_AlwaysExitsOne ==
    (argv.compress /\ ~argv.has_key) =>
        (pc = "done" /\ out.code = 1 /\ files_as_found)

\* C16: an invocation with --compress and without the credential, without
\* --confirm-delete and without --analyze, on a project that holds an
\* image, ends at once with exit code 1 (MissingCredential) and with every
\* file, directory, manifest and review page as it found them, whatever
\* --backup, --delete-unused and --strict say. With --analyze, or on a
\* project without images, it ends at once with exit code 0 and changes
\* nothing either; with --confirm-delete it is a confirm. No invocation
\* calls the shrink service or overwrites an asset without the credential.
C16_MissingCredential ==
    (argv.compress /\ ~argv.has_key) =>
        /\ ~run.do_compress
        /\ hist.service_count = 0
        /\ IF argv.confirm_delete
           THEN run.mode = "confirm" /\ run.backup = argv.backup
           ELSE /\ pc = "done"
                /\ files_as_found
                /\ IF find_images(hist.disk0, hist.dirs0) = <<>>
                   THEN out.code = 0 /\ run.mode = "exit"
                   ELSE IF argv.analyze
                   THEN out.code = 0 /\ run.mode = "analyze"
                   ELSE /\ out.code = 1
                        /\ run.mode = "exit"
                        /\ out.why = "MissingCredential"

C16_Witness ==
    /\ argv.compress /\ ~argv.has_key
    /\ argv.delete_unused /\ argv.backup /\ argv.strict
    /\ pc = "done"
    /\ out.code = 1
    /\ out.why = "MissingCredential"
    /\ manifest # <<>>
    /\ find_images(disk, dirs) # <<>>

\* C17: an invocation with --analyze (and without --confirm-delete, which
\* main tests first) ends at once with exit code 0 and with every file,
\* directory, manifest and review page as it found them, whatever
\* --compress, --delete-unused, --backup and --strict say; it calls the
\* shrink service for nothing.
C17_AnalyzeReadOnly ==
    (argv.analyze /\ ~argv.confirm_delete) =>
        /\ pc = "done"
        /\ out.code = 0
        /\ run.mode = IF find_images(hist.disk0, hist.dirs0) = <<>>
                      THEN "exit" ELSE "analyze"
        /\ hist.service_count = 0
        /\ files_as_found

C17_Witness ==
    /\ argv.analyze /\ argv.compress /\ argv.delete_unused /\ argv.backup
    /\ pc = "done"
    /\ run.mode = "analyze"
    /\ out.unused.files > 0
    /\ out.used.files > 0
    /\ manifest # <<>>
    /\ manifest_paths(manifest) # paths_of(out.unused.items)

\* the files a returned report names as failed
failures_in(result) ==
    IF "compression" \in DOMAIN result
    THEN {result.compression.errors[n].file : n \in DOMAIN result.compression.errors}
    ELSE IF "errors" \in DOMAIN result
    THEN {result.errors[n].file : n \in DOMAIN result.errors}
    ELSE {}

\* C18: the report a finished run returns names every item that failed in
\* the run: each asset whose compression raised (run_optimize) and each
\* manifest entry whose backup or removal raised (run_confirm_delete).
C18_FailuresInReport ==
    pc = "done" =>
        /\ run.mode = "optimize" =>
              {opt.compress_errors[n].file : n \in DOMAIN opt.compress_errors}
                  \subseteq failures_in(out)
        /\ (run.mode = "confirm" /\ out.code = 0) =>
              Range(del.error_lines) \subseteq failures_in(out)

\* nothing exists below directory d
holds_nothing(d) ==
    /\ \A p \in DOMAIN disk : ~IsPrefix(d, p)
    /\ \A e \in dirs : e # d => ~IsPrefix(d, e)
    /\ d = <<>> => (manifest = <<>> /\ review = <<>>)

\* the candidates of a confirm are in line longest path first
longest_first(queue) ==
    \A a, b \in DOMAIN queue : a < b => path_len(queue[a]) >= path_len(queue[b])

\* C19 as stated: a directory that a confirm removes is the parent
\* directory of a file the same confirm deleted, and holds nothing when it
\* is removed.
C19_OnlyParentsOfDeletedFiles ==
    [][ run.mode = "confirm" =>
          \A d \in dirs \ dirs' :
              /\ \E p \in (DOMAIN hist.disk0) \ (DOMAIN disk) : dirname(p) = d
              /\ holds_nothing(d)
      ]_vars

\* C19: a directory that a confirm removes is the parent directory of an
\* entry of the manifest (of a file the confirm deleted, or of one that was
\* already gone and was skipped), is the candidate in turn, is not the
\* project directory and holds nothing when it is removed; the candidates
\* are visited longest path first, each once, and the visit goes on to the
\* next candidate and then to the end of the run whether or not the
\* directory was removed.
C19_OnlyEmptyParentDirs ==
    [][ run.mode = "confirm" =>
          /\ \A d \in dirs \ dirs' :
                /\ pc = "rmdirs"
                /\ d = Head(del.queue)
                /\ \E n \in DOMAIN del.files : dirname(del.files[n].path) = d
                /\ d # <<>>
                /\ holds_nothing(d)
          /\ longest_first(del'.queue)
          /\ (pc = "rmdirs" /\ pc' # "killed") =>
                /\ del'.queue = Tail(del.queue)
                /\ pc' = IF del'.queue = <<>> THEN "finish" ELSE "rmdirs"
          /\ (pc = "del" /\ pc' = "rmdirs") =>
                /\ Len(del'.queue) = Cardinality(Range(del'.queue))
                /\ Range(del'.queue) =
                      {dirname(del.files[n].path) : n \in DOMAIN del.files}
      ]_vars

C19_Witness ==
    /\ pc = "done"
    /\ run.mode = "confirm"
    /\ Len(del.deleted_results) = Cardinality(Images)
    /\ del.removed_dirs = {<<"assets", "ui">>}
    /\ ASSETS_DIR \in dirs
    /\ holds_nothing(ASSETS_DIR)
    /\ manifest = <<>>

\* C20: at every point of a confirm with --backup, each manifest entry
\* whose file the confirm has deleted has a copy with the file's bytes at
\* .deleted_assets_backup/<rel_path> below the project directory; an entry
\* whose backup or removal failed still has its file, with its bytes, and
\* is not among the deleted items nor in freed_bytes; and the finished
\* confirm has handled every entry of the manifest (skipped, deleted or
\* failed), also those after a failed one.
C20_BackupBeforeDelete ==
    (run.mode = "confirm" /\ run.backup) =>
        /\ \A n \in DOMAIN del.files :
              LET e == del.files[n]
                  copy == <<".deleted_assets_backup">> \o e.rel_path
              IN  /\ (e.path \in DOMAIN hist.disk0 /\ e.path \notin DOMAIN disk) =>
                        /\ copy \in DOMAIN disk
                        /\ disk[copy] = hist.disk0[e.path]
                        /\ dirname(copy) \in dirs
                  /\ e.rel_path \in Range(del.error_lines) =>
                        /\ e.path \in DOMAIN disk
                        /\ disk[e.path] = hist.disk0[e.path]
                        /\ \A k \in DOMAIN del.deleted_results :
                              del.deleted_results[k].file # e.rel_path
        /\ del.deleted_total_size = SumSize(del.deleted_results)
        /\ (pc = "done" /\ del.files # <<>>) =>
              /\ out.deleted = Len(del.deleted_results)
              /\ out.freed_bytes = del.deleted_total_size
              /\ Len(del.skip_lines) + Len(del.error_lines)
                    + Len(del.deleted_results) = Len(del.files)

C20_Witness ==
    /\ pc = "done"
    /\ run.mode = "confirm"
    /\ run.backup
    /\ Len(del.files) > 1
    /\ del.error_lines = <<del.files[1].rel_path>>
    /\ ImgC \in DOMAIN disk
    /\ <<".deleted_assets_backup", "ui", "c.png">> \notin DOMAIN disk
    /\ ImgB \notin DOMAIN disk
    /\ <<".deleted_assets_backup", "ui", "b.png">> \in DOMAIN disk

\* C21: in a compression run with --backup, an asset that is being or has
\* been overwritten has a sibling <path>.bak that holds the bytes the asset
\* had before the overwrite (those it had when the run started: a run
\* overwrites an asset at most once); the .bak of an asset whose outcome is
\* skipped or whose upload failed is as the run found it (absent, or the one
\* an earlier run left); and without --backup the run creates no file and
\* leaves every .bak as it found it.
C21_BakBeforeOverwrite ==
    run.mode = "optimize" =>
        /\ \A n \in DOMAIN opt.used :
              LET p == opt.used[n].path
                  rel == opt.used[n].rel_path
                  bak == dirname(p) \o <<basename(p) \o ".bak">>
                  bak_as_found ==
                      /\ bak \in DOMAIN disk <=> bak \in DOMAIN hist.disk0
                      /\ bak \in DOMAIN disk => disk[bak] = hist.disk0[bak]
                  overwritten ==
                      \/ disk[p] # hist.disk0[p]
                      \/ n = opt.i /\ pc = "write"
                      \/ \E k \in DOMAIN opt.compressed_results :
                            /\ opt.compressed_results[k].file = rel
                            /\ opt.compressed_results[k].status = "compressed"
                  skipped ==
                      \E k \in DOMAIN opt.compressed_results :
                          /\ opt.compressed_results[k].file = rel
                          /\ opt.compressed_results[k].status = "skipped"
                  upload_failed ==
                      \E k \in DOMAIN opt.compress_errors :
                          /\ opt.compress_errors[k].file = rel
                          /\ opt.compress_errors[k].error = "upload"
              IN  /\ (run.backup /\ overwritten) =>
                        (bak \in DOMAIN disk /\ disk[bak] = hist.disk0[p])
                  /\ (skipped \/ upload_failed) => bak_as_found
                  /\ ~run.backup => bak_as_found
        /\ ~run.backup => DOMAIN disk = DOMAIN hist.disk0

C21_Witness ==
    /\ pc = "done"
    /\ run.mode = "optimize"
    /\ run.backup
    /\ out.compression.files_compressed = 1
    /\ out.compression.files_skipped = 1
    /\ disk[ImgA] \in NewData
    /\ <<"assets", "a.png.bak">> \in DOMAIN disk
    /\ disk[<<"assets", "a.png.bak">>] = InitialBytes(ImgA)
    /\ <<"assets", "ui", "b.png.bak">> \notin DOMAIN disk

\* the sum of field saved_bytes / original_size over the outcomes compressed
RECURSIVE saved_of(_)
saved_of(results) ==
    IF results = <<>> THEN 0
    ELSE (IF results[1].status = "compressed"
          THEN results[1].original_size - results[1].compressed_size ELSE 0)
         + saved_of(Tail(results))

RECURSIVE original_of(_)
original_of(results) ==
    IF results = <<>> THEN 0
    ELSE (IF results[1].status = "compressed" THEN results[1].original_size ELSE 0)
         + original_of(Tail(results))

\* C22: a used asset whose outcome is an error of the upload or of the
\* download of the compressed bytes (the request to output_url or the
\* reading of its response) holds the bytes it had when the run started,
\* has no outcome among the results, and the report's saved_bytes and
\* original_bytes are the sums over the compressed outcomes only, so the
\* asset adds nothing to them.
C22_FailedAssetUntouched ==
    run.mode = "optimize" =>
        /\ \A k \in DOMAIN opt.compress_errors :
              LET e == opt.compress_errors[k]
                  p == used_path(e.file)
              IN  e.error \in {"upload", "download"} =>
                      /\ disk[p] = hist.disk0[p]
                      /\ \A n \in DOMAIN opt.compressed_results :
                            opt.compressed_results[n].file # e.file
        /\ opt.total_compressed_saved = saved_of(opt.compressed_results)
        /\ opt.total_compressed_original = original_of(opt.compressed_results)
        /\ pc = "done" =>
              /\ out.compression.saved_bytes = saved_of(out.compression.results)
              /\ out.compression.original_bytes = original_of(out.compression.results)
              /\ out.total_saved_bytes = out.compression.saved_bytes

C22_Witness ==
    /\ pc = "done"
    /\ run.mode = "optimize"
    /\ Len(opt.used) = 2
    /\ opt.compress_errors = <<[file |-> opt.used[1].rel_path, error |-> "download"]>>
    /\ disk[opt.used[1].path] = hist.disk0[opt.used[1].path]
    /\ out.compression.files_compressed = 1
    /\ out.compression.saved_bytes = 400
    /\ out.compression.original_bytes = 1000

\* a file the script wrote as a backup: the .bak sibling of a compressed
\* asset or a copy below .deleted_assets_backup
backup_artifact(p) ==
    \/ splitext(basename(p)) = ".bak"
    \/ IsPrefix(BACKUP_DIR, p)

\* C23: in every state of the runs with --backup, no .bak sibling and no
\* file below .deleted_assets_backup is among the images find_images
\* returns for the files as they are now, so that a run started there does
\* not see it; none is among the images, the used or the unused assets of
\* the run at hand, in the manifest on disk or among the entries a confirm
\* run deletes, and a backup that was there when the run started is still
\* there.
C23_BackupsNeverReenter ==
    \A p \in DOMAIN disk \cup DOMAIN hist.disk0 :
        backup_artifact(p) =>
            /\ p \notin Range(find_images(disk, dirs))
            /\ p \notin Range(opt.images)
            /\ p \notin paths_of(opt.used) \cup paths_of(opt.unused)
            /\ p \notin manifest_paths(manifest)
            /\ p \notin paths_of(del.files)
            /\ p \in DOMAIN hist.disk0 => p \in DOMAIN disk

\* the confirm run with --backup after a compress run with --backup has
\* deleted every image and removed assets/: the walk is now of the project
\* directory, which holds the copies below .deleted_assets_backup, and it
\* finds no image
C23_Witness ==
    /\ pc = "done"
    /\ run.mode = "confirm"
    /\ run.backup
    /\ hist.runs = 2
    /\ ASSETS_DIR \notin dirs
    /\ \A q \in Images : q \notin DOMAIN disk
    /\ BACKUP_DIR \o <<"a.png">> \in DOMAIN disk
    /\ BACKUP_DIR \o <<"ui", "b.png">> \in DOMAIN disk
    /\ find_images(disk, dirs) = <<>>

\* C24: for the files and the sources of any state, the references
\* parse_import_paths resolves with strict are among those it resolves
\* without; of the images find_images returns, those detect_unused
\* classifies used with strict are used without it, and those unused
\* without strict are unused with it. The classification a run with
\* --strict made of its own images relates in the same way to the one
\* without strict of the same images.
C24_StrictOnlyRemoves ==
    LET images == find_images(disk, dirs)
        with_strict == detect_unused(images, disk, dirs, sources, TRUE)
        without == detect_unused(images, disk, dirs, sources, FALSE)
        of_run == detect_unused(opt.images, hist.disk0, hist.dirs0, sources, FALSE)
    IN  /\ parse_import_paths(sources, TRUE) \subseteq parse_import_paths(sources, FALSE)
        /\ paths_of(with_strict.used) \subseteq paths_of(without.used)
        /\ paths_of(without.unused) \subseteq paths_of(with_strict.unused)
        /\ (run.mode = "optimize" /\ run.strict) =>
              /\ paths_of(opt.used) \subseteq paths_of(of_run.used)
              /\ paths_of(of_run.unused) \subseteq paths_of(opt.unused)

\* a run with --delete-unused --strict on the sources whose only import of
\* b.png is in a commented-out line: b.png is proposed for deletion, and
\* would be a used asset without --strict
C24_Witness ==
    /\ pc = "done"
    /\ run.mode = "optimize"
    /\ run.strict
    /\ ImgB \in paths_of(opt.unused)
    /\ ImgB \in manifest_paths(manifest)
    /\ ImgB \in paths_of(detect_unused(opt.images, hist.disk0, hist.dirs0,
                                       sources, FALSE).used)
    /\ parse_import_paths(sources, TRUE) # parse_import_paths(sources, FALSE)

====
